---- MODULE Spec2Model ----
(***************************************************************************)
(* The conversation-session layer of the RAG document chat frontend: the   *)
(* conversation slice of the redux store, the chat form's handleSubmit     *)
(* (one asynchronous invocation per accepted submit, suspended at its      *)
(* await until the query request settles) and the handlers of the          *)
(* conversation history panel.                                             *)
(*                                                                         *)
(* A JavaScript string is a sequence of its characters, each a TLA+ string *)
(* (a non-ASCII letter is spelled by its name, "s-caron").  An optional    *)
(* value is None (undefined, or null) or Some(v).                          *)
(***************************************************************************)
EXTENDS Integers, Sequences, FiniteSets, TLC

\* ---------------------------------------------------------------- bounds
\* The number of user events (form submits, button and card clicks, language
\* changes) in one behaviour.
MaxEvents == 3
\* The number of milliseconds the clock advances in one behaviour.
MaxTicks == 1

\* ------------------------------------------------------- optional values
None == <<>>
Some(v) == <<v>>
Val(o) == o[1]

\* ----------------------------------------------------------------- texts
\* 'Doslo je do greske pri obradi vaseg upita. Molimo pokusajte ponovo.'
\* (67 characters, with s-caron four times)
ErrorText ==
    << "D", "o", "s-caron", "l", "o", " ", "j", "e", " ", "d", "o", " ",
       "g", "r", "e", "s-caron", "k", "e", " ", "p", "r", "i", " ", "o",
       "b", "r", "a", "d", "i", " ", "v", "a", "s-caron", "e", "g", " ",
       "u", "p", "i", "t", "a", ".", " ", "M", "o", "l", "i", "m",
       "o", " ", "p", "o", "k", "u", "s-caron", "a", "j", "t", "e", " ",
       "p", "o", "n", "o", "v", "o", "." >>

\* 'Kako mogu otvoriti racun u banci?' (33 characters)
SeedText11 ==
    << "K", "a", "k", "o", " ", "m", "o", "g", "u", " ", "o", "t",
       "v", "o", "r", "i", "t", "i", " ", "r", "a", "c-caron", "u", "n",
       " ", "u", " ", "b", "a", "n", "c", "i", "?" >>

\* 'Za otvaranje racuna u banci potrebno je...' (42 characters)
SeedText12 ==
    << "Z", "a", " ", "o", "t", "v", "a", "r", "a", "n", "j", "e",
       " ", "r", "a", "c-caron", "u", "n", "a", " ", "u", " ", "b", "a",
       "n", "c", "i", " ", "p", "o", "t", "r", "e", "b", "n", "o",
       " ", "j", "e", ".", ".", "." >>

\* 'Sto je GDPR?' (12 characters)
SeedText21 ==
    << "S-caron", "t", "o", " ", "j", "e", " ", "G", "D", "P", "R", "?" >>

\* 'GDPR (General Data Protection Regulation) je...' (47 characters)
SeedText22 ==
    << "G", "D", "P", "R", " ", "(", "G", "e", "n", "e", "r", "a",
       "l", " ", "D", "a", "t", "a", " ", "P", "r", "o", "t", "e",
       "c", "t", "i", "o", "n", " ", "R", "e", "g", "u", "l", "a",
       "t", "i", "o", "n", ")", " ", "j", "e", ".", ".", "." >>

\* 'AI i bankarstvo'
SeedTitle1 ==
    << "A", "I", " ", "i", " ", "b", "a", "n", "k", "a", "r", "s",
       "t", "v", "o" >>

\* 'GDPR regulativa'
SeedTitle2 ==
    << "G", "D", "P", "R", " ", "r", "e", "g", "u", "l", "a", "t",
       "i", "v", "a" >>

\* 'Novi razgovor' / 'New conversation'
DefaultTitleHr ==
    << "N", "o", "v", "i", " ", "r", "a", "z", "g", "o", "v", "o", "r" >>

DefaultTitleEn ==
    << "N", "e", "w", " ", "c", "o", "n", "v", "e", "r", "s", "a",
       "t", "i", "o", "n" >>

Ellipsis == << ".", ".", "." >>

\* The characters String.prototype.trim removes (those the inputs use).
WhiteSpace == {" ", "\n", "\t"}

RECURSIVE TrimStart(_)
TrimStart(s) ==
    IF s = <<>> THEN s
    ELSE IF Head(s) \in WhiteSpace THEN TrimStart(Tail(s)) ELSE s

RECURSIVE TrimEnd(_)
TrimEnd(s) ==
    IF s = <<>> THEN s
    ELSE IF s[Len(s)] \in WhiteSpace THEN TrimEnd(SubSeq(s, 1, Len(s) - 1))
    ELSE s

\* input.trim()
Trim(s) == TrimEnd(TrimStart(s))

\* text.substring(0, n)
Substring0(s, n) == SubSeq(s, 1, IF Len(s) < n THEN Len(s) ELSE n)

\* What the user may have typed into the chat form when the form is submitted.
Inputs ==
    { <<>>,
      << " ", "\n", "\t" >>,
      << " ", "a", " ", "b", "\n" >> }

\* The languages the language selector offers.
Languages == {"hr", "en"}

\* ------------------------------------------------------ the query endpoint
\* Two sources; similarity is written in hundredths (87 for 0.87).
Source1 ==
    [document_id |-> "d1", filename |-> "a.pdf", chunk_index |-> 0,
     similarity |-> 87, content |-> "x"]

Source2 ==
    [document_id |-> "d2", filename |-> "b.pdf", chunk_index |-> 3,
     similarity |-> 42, content |-> ""]

ResponseText == << "o", "k" >>

\* The bodies a 2xx reply may carry: an object with `response` and `sources`,
\* one without `sources`, one without `response`.
Payloads ==
    {[response |-> Some(ResponseText), sources |-> Some(<<Source2, Source1>>)],
     [response |-> Some(ResponseText), sources |-> None],
     [response |-> None, sources |-> Some(<<>>)]}

\* How the promise of queryDocuments settles: rejected (a network error, a
\* timeout, a status outside 2xx), or resolved with response.data, which is
\* a payload or null.
Outcomes ==
    {[status |-> "rejected", data |-> None]}
    \cup {[status |-> "resolved", data |-> None]}
    \cup {[status |-> "resolved", data |-> Some(p)] : p \in Payloads}

\* ------------------------------------------------------------------ time
\* Date.now() when the store module is loaded, in milliseconds.
StartTime == 25 * 60 * 60 * 1000

Hour == 60 * 60 * 1000

VARIABLES
    conversation,   \* state.conversation, the conversation slice of the store
    language,       \* state.app.language
    requests,       \* the handleSubmit invocations suspended at their await
    now,            \* the clock, Date.now()
    events,         \* user events so far
    last,           \* the handler that ran last, its arguments and the state it ran from
    chat,           \* state.chat, the legacy chat slice of the store
    isHydrated      \* the isHydrated state of the ConversationHistory component

vars == <<conversation, language, requests, now, events, last, chat, isHydrated>>

\* ------------------------------------------------------ the initial state
SeedMessage(id, text, sender, timestamp, sources) ==
    [id |-> id, text |-> Some(text), sender |-> sender,
     timestamp |-> timestamp, sources |-> sources]

SeedConversations(t) ==
    << [id |-> "1",
        title |-> SeedTitle1,
        messages |->
            << SeedMessage("1-1", SeedText11, "user", t - 2 * Hour, None),
               SeedMessage("1-2", SeedText12, "assistant",
                           t - 2 * Hour + 30000, Some(<<>>)) >>,
        createdAt |-> t - 2 * Hour,
        updatedAt |-> t - 2 * Hour + 30000],
       [id |-> "2",
        title |-> SeedTitle2,
        messages |->
            << SeedMessage("2-1", SeedText21, "user", t - 24 * Hour, None),
               SeedMessage("2-2", SeedText22, "assistant",
                           t - 24 * Hour + 45000, Some(<<>>)) >>,
        createdAt |-> t - 24 * Hour,
        updatedAt |-> t - 24 * Hour + 45000] >>

initialState(t) ==
    [conversations |-> SeedConversations(t),
     activeConversationId |-> None,
     currentConversation |-> [messages |-> <<>>, isTyping |-> FALSE]]

\* --------------------------------------- the reducers of the slice
\* The append reaching the active conversation's messages too, as it would if
\* the two arrays were one object.
addMessageToCurrentAliased(state, message) ==
    LET hits == {i \in 1..Len(state.conversations) :
                     state.activeConversationId = Some(state.conversations[i].id)}
    IN  [state EXCEPT
           !.currentConversation.messages = Append(@, message),
           !.conversations =
               [i \in 1..Len(state.conversations) |->
                   IF i \in hits
                   THEN [state.conversations[i] EXCEPT
                           !.messages = Append(@, message)]
                   ELSE state.conversations[i]]]

addMessageToCurrent(state, message) ==
    [state EXCEPT !.currentConversation.messages = Append(@, message)]

setCurrentTyping(state, flag) ==
    [state EXCEPT !.currentConversation.isTyping = flag]

\* The clear also leaving the active conversation.
clearCurrentConversationResetsActive(state) ==
    [state EXCEPT !.currentConversation.messages = <<>>,
                  !.currentConversation.isTyping = FALSE,
                  !.activeConversationId = None]

clearCurrentConversation(state) ==
    [state EXCEPT !.currentConversation.messages = <<>>,
                  !.currentConversation.isTyping = FALSE]

\* The new conversation pushed at the end of the list.
createNewConversationAtEnd(state, title, t) ==
    LET newConversation ==
            [id |-> ToString(t),
             title |-> title,
             messages |-> state.currentConversation.messages,
             createdAt |-> t,
             updatedAt |-> t]
    IN  [state EXCEPT !.conversations = Append(@, newConversation),
                      !.activeConversationId = Some(newConversation.id),
                      !.currentConversation.messages = <<>>]

\* The snapshot taken without emptying the current messages.
createNewConversationKeepsCurrent(state, title, t) ==
    LET newConversation ==
            [id |-> ToString(t),
             title |-> title,
             messages |-> state.currentConversation.messages,
             createdAt |-> t,
             updatedAt |-> t]
    IN  [state EXCEPT !.conversations = <<newConversation>> \o @,
                      !.activeConversationId = Some(newConversation.id)]

createNewConversation(state, title, t) ==
    LET newConversation ==
            [id |-> ToString(t),
             title |-> title,
             messages |-> state.currentConversation.messages,
             createdAt |-> t,
             updatedAt |-> t]
    IN  [state EXCEPT !.conversations = <<newConversation>> \o @,
                      !.activeConversationId = Some(newConversation.id),
                      !.currentConversation.messages = <<>>]

\* conversations.find(c => c.id === id): the index of the first match, 0 if none
FindConversation(conversations, id) ==
    LET hits == {i \in 1..Len(conversations) : conversations[i].id = id}
    IN  IF hits = {} THEN 0 ELSE CHOOSE i \in hits : \A j \in hits : i <= j

\* The load pushing the conversation's messages onto the current ones.
loadConversationAppends(state, id) ==
    LET i == FindConversation(state.conversations, id)
    IN  IF i # 0
        THEN [state EXCEPT !.activeConversationId = Some(id),
                           !.currentConversation.messages =
                               @ \o state.conversations[i].messages]
        ELSE state

loadConversation(state, id) ==
    LET i == FindConversation(state.conversations, id)
    IN  IF i # 0
        THEN [state EXCEPT !.activeConversationId = Some(id),
                           !.currentConversation.messages =
                               state.conversations[i].messages]
        ELSE state

\* title is None when the payload carries no title
saveCurrentConversation(state, title, t) ==
    IF state.activeConversationId # None /\ Val(state.activeConversationId) # ""
    THEN LET i == FindConversation(state.conversations,
                                   Val(state.activeConversationId))
         IN  IF i # 0
             THEN [state EXCEPT
                     !.conversations[i].messages =
                         state.currentConversation.messages,
                     !.conversations[i].updatedAt = t,
                     !.conversations[i].title =
                         IF title # None /\ Val(title) # <<>>
                         THEN Val(title) ELSE @]
             ELSE state
    ELSE state

\* The delete leaving the active id and the current session as they are.
deleteConversationKeepsActive(state, id) ==
    [state EXCEPT !.conversations = SelectSeq(@, LAMBDA c : c.id # id)]

\* The delete of the active conversation clearing the whole current session,
\* typing flag included.
deleteConversationClearsTyping(state, id) ==
    LET kept == SelectSeq(state.conversations, LAMBDA c : c.id # id)
    IN  IF state.activeConversationId = Some(id)
        THEN [state EXCEPT !.conversations = kept,
                           !.activeConversationId = None,
                           !.currentConversation.messages = <<>>,
                           !.currentConversation.isTyping = FALSE]
        ELSE [state EXCEPT !.conversations = kept]

deleteConversation(state, id) ==
    LET kept == SelectSeq(state.conversations, LAMBDA c : c.id # id)
    IN  IF state.activeConversationId = Some(id)
        THEN [state EXCEPT !.conversations = kept,
                           !.activeConversationId = None,
                           !.currentConversation.messages = <<>>]
        ELSE [state EXCEPT !.conversations = kept]

\* id is None (null) or Some(id)
setActiveConversation(state, id) ==
    [state EXCEPT !.activeConversationId = id]

updateConversationTitle(state, id, title, t) ==
    LET i == FindConversation(state.conversations, id)
    IN  IF i # 0
        THEN [state EXCEPT !.conversations[i].title = title,
                           !.conversations[i].updatedAt = t]
        ELSE state

\* ------------------------------------------- the chat form: handleSubmit
\* The guard without its isTyping disjunct.
SubmitAcceptedWhileTyping(input, isTyping) == Trim(input) # <<>>

\* The guard testing the raw input instead of the trimmed one.
SubmitAcceptedUntrimmed(input, isTyping) == input # <<>> /\ ~isTyping

\* if (!input.trim() || isTyping) return
SubmitAccepted(input, isTyping) == Trim(input) # <<>> /\ ~isTyping

userMessage(input, t) ==
    [id |-> ToString(t), text |-> Some(Trim(input)), sender |-> "user",
     timestamp |-> t, sources |-> None]

\* The store after the two dispatches that follow the guard.
SubmitDispatch(state, input, t) ==
    setCurrentTyping(addMessageToCurrent(state, userMessage(input, t)), TRUE)

\* The invocation suspended at `await queryDocuments(input.trim(), language,
\* category)`: the request it sent and the locals it holds.  `n` numbers the
\* invocations; `undisturbed` records that no other handler has run on the
\* store since this invocation was suspended.
Invocation(n, input, lang, t) ==
    [n |-> n,
     userMessage |-> userMessage(input, t),
     query |-> Trim(input),
     language |-> lang,
     category |-> None,
     undisturbed |-> TRUE]

Disturb(rs) == {[r EXCEPT !.undisturbed = FALSE] : r \in rs}

\* The try block reads response.response and response.sources: a null
\* response throws a TypeError there, as a rejected promise throws at the await.
Throws(outcome) == outcome.status = "rejected" \/ outcome.data = None

\* The assistant message built without the sources of the payload.
assistantMessageNoSources(data, t) ==
    [id |-> ToString(t + 1), text |-> data.response, sender |-> "assistant",
     timestamp |-> t, sources |-> None]

assistantMessage(data, t) ==
    [id |-> ToString(t + 1), text |-> data.response, sender |-> "assistant",
     timestamp |-> t, sources |-> data.sources]

\* The fallback message carrying an empty sources list.
errorMessageWithSources(lang, t) ==
    [id |-> ToString(t + 1), text |-> Some(ErrorText), sender |-> "assistant",
     timestamp |-> t, sources |-> Some(<<>>)]

errorMessage(lang, t) ==
    [id |-> ToString(t + 1), text |-> Some(ErrorText), sender |-> "assistant",
     timestamp |-> t, sources |-> None]

\* The message the try or the catch block dispatches.
ReplyMessage(r, outcome, t) ==
    IF Throws(outcome)
    THEN errorMessage(r.language, t)
    ELSE assistantMessage(Val(outcome.data), t)

\* The continuation without its finally block.
FinallyDropped(state) == state

\* finally { dispatch(setCurrentTyping(false)) }
Finally(state) == setCurrentTyping(state, FALSE)

\* The store after the continuation of handleSubmit: try or catch, then finally.
SettleDispatch(state, r, outcome, t) ==
    Finally(addMessageToCurrent(state, ReplyMessage(r, outcome, t)))

Snapshot == [conversation |-> conversation, requests |-> requests]

HandleSubmit(input) ==
    /\ events < MaxEvents
    /\ IF SubmitAccepted(input, conversation.currentConversation.isTyping)
       THEN /\ conversation' = SubmitDispatch(conversation, input, now)
            /\ requests' = Disturb(requests)
                             \cup {Invocation(events + 1, input, language, now)}
       ELSE UNCHANGED <<conversation, requests>>
    /\ last' = [op |-> "handleSubmit", input |-> input, pre |-> Snapshot]
    /\ UNCHANGED <<language, now, chat, isHydrated>>
    /\ events' = events + 1

\* The query request of invocation r settles and handleSubmit runs to its end.
Settle(r, outcome) ==
    /\ r \in requests
    /\ conversation' = SettleDispatch(conversation, r, outcome, now)
    /\ requests' = Disturb(requests \ {r})
    /\ last' = [op |-> "settle", request |-> r, outcome |-> outcome,
                pre |-> Snapshot]
    /\ UNCHANGED <<language, now, events, chat, isHydrated>>

HandleClear ==
    /\ events < MaxEvents
    /\ conversation' = clearCurrentConversation(conversation)
    /\ requests' = Disturb(requests)
    /\ last' = [op |-> "handleClear", pre |-> Snapshot]
    /\ UNCHANGED <<language, now, chat, isHydrated>>
    /\ events' = events + 1

\* ------------------------------------------------- the history panel
TitleLimit == 30

\* The title with the ellipsis from 30 characters on.
GeneratedTitleEllipsisAtLimit(messages, lang) ==
    LET users == {i \in 1..Len(messages) : messages[i].sender = "user"}
    IN  IF users # {}
        THEN LET first == CHOOSE i \in users : \A j \in users : i <= j
                 text == Val(messages[first].text)
             IN  Substring0(text, TitleLimit)
                   \o (IF Len(text) >= TitleLimit THEN Ellipsis ELSE <<>>)
        ELSE IF lang = "hr" THEN DefaultTitleHr ELSE DefaultTitleEn

GeneratedTitle(messages, lang) ==
    LET users == {i \in 1..Len(messages) : messages[i].sender = "user"}
    IN  IF users # {}
        THEN LET first == CHOOSE i \in users : \A j \in users : i <= j
                 text == Val(messages[first].text)
             IN  Substring0(text, TitleLimit)
                   \o (IF Len(text) > TitleLimit THEN Ellipsis ELSE <<>>)
        ELSE IF lang = "hr" THEN DefaultTitleHr ELSE DefaultTitleEn

\* The handler saving whatever the current session holds.
NewConversationAllowedAlways(messages) == TRUE

NewConversationAllowed(messages) == Len(messages) > 0

HandleNewConversation ==
    /\ events < MaxEvents
    /\ IF NewConversationAllowed(conversation.currentConversation.messages)
       THEN /\ conversation' =
                 createNewConversation(
                     conversation,
                     GeneratedTitle(conversation.currentConversation.messages,
                                    language),
                     now)
       ELSE UNCHANGED conversation
    /\ requests' = Disturb(requests)
    /\ last' = [op |-> "handleNewConversation", pre |-> Snapshot]
    /\ UNCHANGED <<language, now, chat, isHydrated>>
    /\ events' = events + 1

\* A click on the card of the current chat.
HandleSelectCurrent ==
    /\ events < MaxEvents
    /\ conversation' = setActiveConversation(conversation, None)
    /\ requests' = Disturb(requests)
    /\ last' = [op |-> "handleSelectConversation", id |-> None, pre |-> Snapshot]
    /\ UNCHANGED <<language, now, chat, isHydrated>>
    /\ events' = events + 1

\* A click on the card of a conversation of the list.
HandleSelectConversation(i) ==
    /\ events < MaxEvents
    /\ i \in 1..Len(conversation.conversations)
    /\ LET id == conversation.conversations[i].id
       IN  /\ conversation' =
                loadConversation(setActiveConversation(conversation, Some(id)), id)
           /\ last' = [op |-> "handleSelectConversation", id |-> Some(id),
                       pre |-> Snapshot]
    /\ requests' = Disturb(requests)
    /\ UNCHANGED <<language, now, chat, isHydrated>>
    /\ events' = events + 1

\* A click on the delete button of a conversation of the list.
HandleDeleteConversation(i) ==
    /\ events < MaxEvents
    /\ i \in 1..Len(conversation.conversations)
    /\ LET id == conversation.conversations[i].id
       IN  /\ conversation' = deleteConversation(conversation, id)
           /\ last' = [op |-> "handleDeleteConversation", id |-> Some(id),
                       pre |-> Snapshot]
    /\ requests' = Disturb(requests)
    /\ UNCHANGED <<language, now, chat, isHydrated>>
    /\ events' = events + 1

\* ------------------------------------------------- the language selector
HandleLanguageChange(newLanguage) ==
    /\ events < MaxEvents
    /\ newLanguage # language
    /\ language' = newLanguage
    /\ last' = [op |-> "handleLanguageChange", pre |-> Snapshot]
    /\ UNCHANGED <<conversation, requests, now, chat, isHydrated>>
    /\ events' = events + 1

\* ------------------------------------------------------------ the clock
Tick ==
    /\ now < StartTime + MaxTicks
    /\ now' = now + 1
    /\ UNCHANGED <<conversation, language, requests, events, last, chat, isHydrated>>

\* ------------------------------------------------- the legacy chat slice
chatInitialState == [messages |-> <<>>, isTyping |-> FALSE, currentQuery |-> <<>>]

addMessage(state, message) == [state EXCEPT !.messages = Append(@, message)]

setIsTyping(state, flag) == [state EXCEPT !.isTyping = flag]

setCurrentQuery(state, query) == [state EXCEPT !.currentQuery = query]

clearMessages(state) == [state EXCEPT !.messages = <<>>]

\* Object.assign(target, source): every own property of source overwrites the
\* property of that name of target.
ObjectAssign(target, source) ==
    [f \in DOMAIN target \cup DOMAIN source |->
        IF f \in DOMAIN source THEN source[f] ELSE target[f]]

updateLastMessage(state, payload) ==
    IF Len(state.messages) > 0
    THEN [state EXCEPT !.messages[Len(state.messages)] =
                           ObjectAssign(@, payload)]
    ELSE state

Init ==
    /\ conversation = initialState(StartTime)
    /\ language = "hr"
    /\ requests = {}
    /\ now = StartTime
    /\ events = 0
    /\ last = [op |-> "init"]
    /\ chat = chatInitialState
    /\ isHydrated = FALSE

SubmitStep == \E input \in Inputs : HandleSubmit(input)
SettleStep == \E r \in requests, outcome \in Outcomes : Settle(r, outcome)
SelectStep == \E i \in 1..Len(conversation.conversations) : HandleSelectConversation(i)
DeleteStep == \E i \in 1..Len(conversation.conversations) : HandleDeleteConversation(i)
LanguageStep == \E l \in Languages : HandleLanguageChange(l)

Next ==
    \/ SubmitStep
    \/ SettleStep
    \/ HandleClear
    \/ HandleNewConversation
    \/ HandleSelectCurrent
    \/ SelectStep
    \/ DeleteStep
    \/ LanguageStep
    \/ Tick

Spec == Init /\ [][Next]_vars

\* The transport settles every request (axios times out after 30 s), and the
\* continuation of handleSubmit then runs.
FairSpec == Spec /\ WF_vars(SettleStep)

\* ------------------------------- the store, dispatched to action by action
\* The reducers are the public operations of the conversation store: here
\* each is dispatched on its own, with any payload, from any state.
UnknownId == "unknown"

\* The ids a payload may name: those of the list and one that is not in it.
StoreIds ==
    {conversation.conversations[i].id : i \in 1..Len(conversation.conversations)}
    \cup {UnknownId}

StoreTitle == << "T" >>

\* The messages a caller may append: a user message and an assistant message.
StoreMessages(t) ==
    {userMessage(<< "q" >>, t),
     assistantMessage([response |-> Some(ResponseText),
                       sources |-> Some(<<Source1>>)], t)}

\* One dispatch: the reducer's result replaces the slice.
Dispatched(op, arg, result) ==
    /\ events < MaxEvents
    /\ conversation' = result
    /\ last' = [op |-> op, arg |-> arg, at |-> now, pre |-> Snapshot]
    /\ events' = events + 1
    /\ UNCHANGED <<language, requests, now, chat, isHydrated>>

DispatchAddMessageToCurrent ==
    \E m \in StoreMessages(now) :
        Dispatched("addMessageToCurrent", m, addMessageToCurrent(conversation, m))

DispatchSetCurrentTyping ==
    \E flag \in BOOLEAN :
        Dispatched("setCurrentTyping", flag, setCurrentTyping(conversation, flag))

DispatchClearCurrentConversation ==
    Dispatched("clearCurrentConversation", None,
               clearCurrentConversation(conversation))

DispatchCreateNewConversation ==
    Dispatched("createNewConversation", StoreTitle,
               createNewConversation(conversation, StoreTitle, now))

DispatchLoadConversation ==
    \E id \in StoreIds :
        Dispatched("loadConversation", id, loadConversation(conversation, id))

DispatchSaveCurrentConversation ==
    \E title \in {None, Some(<<>>), Some(StoreTitle)} :
        Dispatched("saveCurrentConversation", title,
                   saveCurrentConversation(conversation, title, now))

DispatchDeleteConversation ==
    \E id \in StoreIds :
        Dispatched("deleteConversation", id, deleteConversation(conversation, id))

DispatchSetActiveConversation ==
    \E id \in {None} \cup {Some(i) : i \in StoreIds} :
        Dispatched("setActiveConversation", id,
                   setActiveConversation(conversation, id))

DispatchUpdateConversationTitle ==
    \E id \in StoreIds :
        Dispatched("updateConversationTitle", id,
                   updateConversationTitle(conversation, id, StoreTitle, now))

StoreNext ==
    \/ DispatchAddMessageToCurrent
    \/ DispatchSetCurrentTyping
    \/ DispatchClearCurrentConversation
    \/ DispatchCreateNewConversation
    \/ DispatchLoadConversation
    \/ DispatchSaveCurrentConversation
    \/ DispatchDeleteConversation
    \/ DispatchSetActiveConversation
    \/ DispatchUpdateConversationTitle
    \/ Tick

StoreSpec == Init /\ [][StoreNext]_vars

\* ------------------------------------------- the history panel, rendered
DigitChars == << "0", "1", "2", "3", "4", "5", "6", "7", "8", "9" >>

\* The decimal numeral of a natural number, as template literals and
\* toLocaleDateString print it.
RECURSIVE Digits(_)
Digits(n) ==
    IF n < 10 THEN << DigitChars[n + 1] >>
    ELSE Digits(n \div 10) \o << DigitChars[(n % 10) + 1] >>

Pad2(n) == IF n < 10 THEN << "0" >> \o Digits(n) ELSE Digits(n)

DayMs == 24 * Hour

\* The calendar date (UTC) of a day counted from 1970-01-01.
CivilDate(days) ==
    LET z == days + 719468
        era == z \div 146097
        doe == z - era * 146097
        yoe == (doe - doe \div 1460 + doe \div 36524 - doe \div 146096) \div 365
        doy == doe - (365 * yoe + yoe \div 4 - yoe \div 100)
        mp == (5 * doy + 2) \div 153
        d == doy - (153 * mp + 2) \div 5 + 1
        m == IF mp < 10 THEN mp + 3 ELSE mp - 9
    IN  [year |-> yoe + era * 400 + (IF m <= 2 THEN 1 ELSE 0),
         month |-> m, day |-> d]

\* Date.prototype.toLocaleDateString for the two locales the panel uses, in
\* the time zone UTC: "1/2/1970" for en-US, "02. 01. 1970." for hr-HR.
toLocaleDateString(timestamp, locale) ==
    LET date == CivilDate(timestamp \div DayMs)
    IN  IF locale = "hr-HR"
        THEN Pad2(date.day) \o << ".", " " >> \o Pad2(date.month)
               \o << ".", " " >> \o Digits(date.year) \o << "." >>
        ELSE Digits(date.month) \o << "/" >> \o Digits(date.day)
               \o << "/" >> \o Digits(date.year)

LabelNowHr == << "S", "a", "d", "a" >>
LabelNowEn == << "N", "o", "w" >>

\* The label computed without looking at isHydrated.
formatTimestampAlwaysRelative(timestamp, t, lang, hydrated) ==
    LET diff == t - timestamp
        hours == diff \div (1000 * 60 * 60)
        days == hours \div 24
    IN  IF days > 0 THEN Digits(days) \o << "d" >>
        ELSE IF hours > 0 THEN Digits(hours) \o << "h" >>
        ELSE IF lang = "hr" THEN LabelNowHr ELSE LabelNowEn

\* The label with the days rounded to the nearest day.
formatTimestampRounded(timestamp, t, lang, hydrated) ==
    IF ~hydrated
    THEN toLocaleDateString(timestamp, IF lang = "hr" THEN "hr-HR" ELSE "en-US")
    ELSE LET diff == t - timestamp
             hours == diff \div (1000 * 60 * 60)
             days == (hours + 12) \div 24
         IN  IF days > 0 THEN Digits(days) \o << "d" >>
             ELSE IF hours > 0 THEN Digits(hours) \o << "h" >>
             ELSE IF lang = "hr" THEN LabelNowHr ELSE LabelNowEn

\* formatTimestamp(timestamp) rendered at time t (new Date()) with the
\* language and the isHydrated state the component holds.
formatTimestamp(timestamp, t, lang, hydrated) ==
    IF ~hydrated
    THEN toLocaleDateString(timestamp, IF lang = "hr" THEN "hr-HR" ELSE "en-US")
    ELSE LET diff == t - timestamp
             hours == diff \div (1000 * 60 * 60)
             days == hours \div 24
         IN  IF days > 0 THEN Digits(days) \o << "d" >>
             ELSE IF hours > 0 THEN Digits(hours) \o << "h" >>
             ELSE IF lang = "hr" THEN LabelNowHr ELSE LabelNowEn

\* useEffect(() => { setIsHydrated(true) }, []): the effect of the first render.
Hydrate ==
    /\ ~isHydrated
    /\ isHydrated' = TRUE
    /\ UNCHANGED <<conversation, language, requests, now, events, last, chat>>

\* How long before the render a rendered timestamp lies (negative: after it).
Ages ==
    { 0, 10 * 1000, Hour - 1, Hour, 3 * Hour, 12 * Hour, DayMs - 1, DayMs,
      30 * Hour, 2 * DayMs - 1, 2 * DayMs, 0 - 1, 0 - Hour }

\* The timestamps a render formats: the updatedAt of the conversations of
\* the list, and timestamps of the ages above.
RenderedTimestamps ==
    {conversation.conversations[i].updatedAt :
         i \in 1..Len(conversation.conversations)}
      \cup {now - age : age \in Ages}

\* One label of a render of the panel.
RenderLabel(timestamp) ==
    /\ last' = [op |-> "formatTimestamp", timestamp |-> timestamp, now |-> now,
                language |-> language, isHydrated |-> isHydrated,
                result |-> formatTimestamp(timestamp, now, language, isHydrated)]
    /\ UNCHANGED <<conversation, language, requests, now, events, chat, isHydrated>>

RenderStep == \E timestamp \in RenderedTimestamps : RenderLabel(timestamp)

\* A text of n characters.
TextOfLength(n) == [i \in 1..n |-> DigitChars[(i % 10) + 1]]

\* The sessions the panel is mounted over.
Sessions ==
    { << >>,
      << userMessage(TextOfLength(20), StartTime) >>,
      << userMessage(TextOfLength(30), StartTime) >>,
      << userMessage(TextOfLength(31), StartTime) >>,
      << userMessage(TextOfLength(45), StartTime) >>,
      << errorMessage("hr", StartTime) >>,
      << errorMessage("hr", StartTime - 1),
         userMessage(TextOfLength(31), StartTime),
         userMessage(TextOfLength(20), StartTime) >> }

HistoryInit ==
    /\ conversation \in
           {[initialState(StartTime) EXCEPT !.currentConversation.messages = session] :
                session \in Sessions}
    /\ language \in Languages
    /\ requests = {}
    /\ now = StartTime
    /\ events = 0
    /\ last = [op |-> "init"]
    /\ chat = chatInitialState
    /\ isHydrated = FALSE

HistoryNext ==
    \/ Hydrate
    \/ RenderStep
    \/ HandleNewConversation
    \/ LanguageStep
    \/ Tick

HistorySpec == HistoryInit /\ [][HistoryNext]_vars

\* -------------------------------------- the legacy chat slice, dispatched
\* Partial<Message> payloads of updateLastMessage.
Patches ==
    { [sources |-> Some(<<Source2, Source1>>)],
      [sources |-> Some(<<>>)],
      [text |-> Some(ResponseText)],
      [text |-> Some(ResponseText), sources |-> Some(<<Source1>>)] }

ChatDispatched(op, arg, result) ==
    /\ events < MaxEvents
    /\ chat' = result
    /\ last' = [op |-> op, arg |-> arg, at |-> now, pre |-> [chat |-> chat]]
    /\ events' = events + 1
    /\ UNCHANGED <<conversation, language, requests, now, isHydrated>>

DispatchAddMessage ==
    \E m \in StoreMessages(now) :
        ChatDispatched("addMessage", m, addMessage(chat, m))

DispatchSetIsTyping ==
    \E flag \in BOOLEAN :
        ChatDispatched("setIsTyping", flag, setIsTyping(chat, flag))

DispatchSetCurrentQuery ==
    ChatDispatched("setCurrentQuery", << "q" >>, setCurrentQuery(chat, << "q" >>))

DispatchClearMessages ==
    ChatDispatched("clearMessages", None, clearMessages(chat))

DispatchUpdateLastMessage ==
    \E payload \in Patches :
        ChatDispatched("updateLastMessage", payload,
                       updateLastMessage(chat, payload))

ChatNext ==
    \/ DispatchAddMessage
    \/ DispatchSetIsTyping
    \/ DispatchSetCurrentQuery
    \/ DispatchClearMessages
    \/ DispatchUpdateLastMessage
    \/ Tick

ChatSpec == Init /\ [][ChatNext]_vars
\* ======================================================== the properties
\* --------------------------------------------------- the derived views
\* The panels recompute these from the store on every render.
\* 'Zapocnite razgovor...'
EmptyCurrentHr ==
    << "Z", "a", "p", "o", "c-caron", "n", "i", "t", "e", " ", "r", "a",
       "z", "g", "o", "v", "o", "r", ".", ".", "." >>

\* 'Start a conversation...'
EmptyCurrentEn ==
    << "S", "t", "a", "r", "t", " ", "a", " ", "c", "o", "n", "v",
       "e", "r", "s", "a", "t", "i", "o", "n", ".", ".", "." >>

\* 'Prazan razgovor'
EmptyHistoryHr ==
    << "P", "r", "a", "z", "a", "n", " ", "r", "a", "z", "g", "o",
       "v", "o", "r" >>

\* 'Empty conversation'
EmptyHistoryEn ==
    << "E", "m", "p", "t", "y", " ", "c", "o", "n", "v", "e", "r",
       "s", "a", "t", "i", "o", "n" >>

\* What an expression of a render yields: a text, or a TypeError thrown.
Rendered(text) == [throws |-> FALSE, text |-> text]
TypeError == [throws |-> TRUE, text |-> <<>>]

CurrentPreviewLimit == 50
HistoryPreviewLimit == 40

\* messages.length > 0
\*   ? messages[messages.length - 1]?.text.substring(0, n) + '...'
\*   : emptyText
\* The ?. guards the message, not its text: substring of an undefined text throws.
Preview(messages, n, emptyText) ==
    IF Len(messages) > 0
    THEN IF messages[Len(messages)].text = None
         THEN TypeError
         ELSE Rendered(Substring0(Val(messages[Len(messages)].text), n)
                         \o Ellipsis)
    ELSE Rendered(emptyText)

\* The preview on the card of the current chat.
CurrentPreview(messages, lang) ==
    Preview(messages, CurrentPreviewLimit,
            IF lang = "hr" THEN EmptyCurrentHr ELSE EmptyCurrentEn)

\* The preview on the card of a conversation of the list.
HistoryPreview(messages, lang) ==
    Preview(messages, HistoryPreviewLimit,
            IF lang = "hr" THEN EmptyHistoryHr ELSE EmptyHistoryEn)

\* The title handleNewConversation would generate: firstUserMessage.text.substring
\* throws on an undefined text.
TitleView(messages, lang) ==
    IF \E i \in 1..Len(messages) :
           /\ messages[i].sender = "user"
           /\ messages[i].text = None
           /\ \A j \in 1..(i - 1) : messages[j].sender # "user"
    THEN TypeError
    ELSE Rendered(GeneratedTitle(messages, lang))

\* The sources of the most recent assistant message that has any.
PresentedSourcesLatestCited(messages) ==
    LET cited == {i \in 1..Len(messages) :
                     /\ messages[i].sender = "assistant"
                     /\ messages[i].sources # None}
    IN  IF cited = {} THEN <<>>
        ELSE LET k == CHOOSE i \in cited : \A j \in cited : j <= i
             IN  Val(messages[k].sources)

\* The sources panel: the sources of the last assistant message, [] if it has
\* none or there is no such message.
PresentedSources(messages) ==
    LET assistants == {i \in 1..Len(messages) : messages[i].sender = "assistant"}
    IN  IF assistants = {} THEN <<>>
        ELSE LET k == CHOOSE i \in assistants : \A j \in assistants : j <= i
             IN  IF messages[k].sources = None THEN <<>>
                 ELSE Val(messages[k].sources)

\* ======================================================== the properties
Messages == conversation.currentConversation.messages
IsTyping == conversation.currentConversation.isTyping
PreMessages == last.pre.conversation.currentConversation.messages
PreIsTyping == last.pre.conversation.currentConversation.isTyping

\* The last handler was handleSubmit and its guard let the submit through.
SubmitWasAccepted ==
    /\ last.op = "handleSubmit"
    /\ \E i \in 1..Len(last.input) : last.input[i] \notin WhiteSpace
    /\ ~PreIsTyping

\* The last handler was the continuation of handleSubmit.
Settled == last.op = "settle"
SettledRejected == Settled /\ last.outcome.status = "rejected"
SettledWithResponse ==
    /\ Settled
    /\ last.outcome.status = "resolved"
    /\ last.outcome.data # None
    /\ Val(last.outcome.data).response # None
SettledWithoutResponse ==
    /\ Settled
    /\ last.outcome.status = "resolved"
    /\ last.outcome.data # None
    /\ Val(last.outcome.data).response = None

NoOuterWhiteSpace(s) ==
    s # <<>> /\ s[1] \notin WhiteSpace /\ s[Len(s)] \notin WhiteSpace

\* An accepted submit appends exactly one message, a user message holding the
\* trimmed input, and sets isTyping.
SubmitAppendsUserMessage ==
    SubmitWasAccepted =>
        /\ Len(Messages) = Len(PreMessages) + 1
        /\ SubSeq(Messages, 1, Len(PreMessages)) = PreMessages
        /\ Messages[Len(Messages)].sender = "user"
        /\ Messages[Len(Messages)].text = Some(Trim(last.input))
        /\ NoOuterWhiteSpace(Val(Messages[Len(Messages)].text))
        /\ Messages[Len(Messages)].sources = None
        /\ IsTyping

\* The continuation appends exactly one message, sent by the assistant.
SettleAppendsOne ==
    /\ Len(Messages) = Len(PreMessages) + 1
    /\ SubSeq(Messages, 1, Len(PreMessages)) = PreMessages
    /\ Messages[Len(Messages)].sender = "assistant"

\* The message before the appended one is the user message of the settled query.
ReplyFollowsItsQuestion ==
    /\ Len(Messages) >= 2
    /\ Messages[Len(Messages) - 1] = last.request.userMessage
    /\ Messages[Len(Messages) - 1].sender = "user"

\* C1: after every accepted submit isTyping eventually becomes false again,
\* whether the request resolves or rejects, given that every request settles.
C1_BusyIsEventuallyReset == IsTyping ~> ~IsTyping

\* C1 witness: a request that failed has settled and the flag it set is down.
C1_Witness == SettledRejected /\ PreIsTyping /\ ~IsTyping

\* C2 (as claimed): at most one query request is in flight in every state.
C2_AtMostOneInFlight == Cardinality(requests) <= 1

\* C3 (as claimed): isTyping is true exactly when a query request is in flight.
C3_BusyIffInFlight == IsTyping <=> requests # {}

\* C4 (as claimed): whenever a request settles, the assistant message is
\* appended to the thread holding the query's user message, directly after it.
C4_ReplyInTheRightThread == Settled => ReplyFollowsItsQuestion

\* C5: a submit that succeeds with no other handler in between extends the
\* current messages by the user message (the trimmed input) and then the
\* assistant message (the payload's response and exactly its sources), with
\* isTyping true between the two and false after.
C5_SuccessfulSubmit ==
    /\ SubmitAppendsUserMessage
    /\ (SettledWithResponse /\ last.request.undisturbed) =>
           /\ SettleAppendsOne
           /\ ReplyFollowsItsQuestion
           /\ Messages[Len(Messages) - 1].text = Some(last.request.query)
           /\ Messages[Len(Messages)].text = Val(last.outcome.data).response
           /\ Messages[Len(Messages)].sources = Val(last.outcome.data).sources
           /\ PreIsTyping
           /\ ~IsTyping

\* C5 witness: an undisturbed query resolved with a response and two sources.
C5_Witness ==
    /\ SettledWithResponse
    /\ last.request.undisturbed
    /\ Val(last.outcome.data).sources = Some(<<Source2, Source1>>)
    /\ Len(Messages) = 2

\* C6: a query whose request rejects still appends one user message (at the
\* submit) and one assistant fallback message without sources (when it
\* settles), the fallback right after the user message when no other handler
\* ran in between, and ends with isTyping false.
C6_FailingQuery ==
    /\ SubmitAppendsUserMessage
    /\ SettledRejected =>
           /\ SettleAppendsOne
           /\ Messages[Len(Messages)].text = Some(ErrorText)
           /\ Messages[Len(Messages)].sources = None
           /\ last.request.undisturbed => ReplyFollowsItsQuestion
           /\ ~IsTyping

\* C6 witness: an undisturbed query rejected, leaving the two messages.
C6_Witness ==
    /\ SettledRejected
    /\ last.request.undisturbed
    /\ Len(Messages) = 2
    /\ Messages[1].sender = "user"
    /\ Messages[2].sender = "assistant"

\* C7: a submit while isTyping is true changes nothing, whatever the text: no
\* message is appended, isTyping stays true, no request is sent.
C7_SubmitWhileBusyIsNoOp ==
    (last.op = "handleSubmit" /\ PreIsTyping) =>
        /\ conversation = last.pre.conversation
        /\ requests = last.pre.requests
        /\ IsTyping

\* C7 witness: a non-empty text was submitted while a query was in flight.
C7_Witness ==
    /\ last.op = "handleSubmit"
    /\ PreIsTyping
    /\ last.input = << " ", "a", " ", "b", "\n" >>
    /\ last.pre.requests # {}

\* C8: a submit of a text that is empty or all white space changes nothing in
\* any state: no message is appended, isTyping is not toggled, no request sent.
C8_BlankSubmitIsNoOp ==
    (last.op = "handleSubmit"
       /\ \A i \in 1..Len(last.input) : last.input[i] \in WhiteSpace) =>
        /\ conversation = last.pre.conversation
        /\ requests = last.pre.requests

\* C8 witness: white space alone was submitted while the form was idle.
C8_Witness ==
    /\ last.op = "handleSubmit"
    /\ last.input = << " ", "\n", "\t" >>
    /\ ~PreIsTyping

\* C9 (as claimed): a 2xx reply whose payload lacks `response` is answered
\* with the fallback message, without sources.
C9_MissingResponseIsFailure ==
    SettledWithoutResponse =>
        /\ Messages[Len(Messages)].text = Some(ErrorText)
        /\ Messages[Len(Messages)].sources = None

\* C10 (as claimed): the fallback message has no sources and its text is a
\* function of the language of the submit: the Croatian text for 'hr', an
\* English text (so not the Croatian one) for 'en'.
C10_FallbackFollowsLanguage ==
    (Settled /\ Throws(last.outcome)) =>
        /\ Messages[Len(Messages)].sources = None
        /\ last.request.language = "hr" =>
               Messages[Len(Messages)].text = Some(ErrorText)
        /\ last.request.language = "en" =>
               Messages[Len(Messages)].text # Some(ErrorText)

\* C11 (as claimed): no render after any sequence of submits and endpoint
\* outcomes throws: the preview of the current chat, the previews of the
\* list and the generated title all yield a value (the sources view, which
\* reads no field of an undefined value, cannot throw).
C11_NoExceptionSurfaces ==
    /\ ~CurrentPreview(Messages, language).throws
    /\ \A i \in 1..Len(conversation.conversations) :
           ~HistoryPreview(conversation.conversations[i].messages, language).throws
    /\ ~TitleView(Messages, language).throws

PreConversations == last.pre.conversation.conversations
Conversations == conversation.conversations
PreActive == last.pre.conversation.activeConversationId
Active == conversation.activeConversationId

\* C12: createNewConversation on a non-empty current session and a list of
\* length N gives a list of length N+1 whose head is the new conversation
\* (the given title, the previous current messages) followed by the N
\* conversations as they were; the current messages are empty and the new
\* conversation is the active one.
C12_CreateFromCurrent ==
    (last.op = "createNewConversation" /\ PreMessages # <<>>) =>
        /\ Len(Conversations) = Len(PreConversations) + 1
        /\ Conversations[1].title = last.arg
        /\ Conversations[1].messages = PreMessages
        /\ Tail(Conversations) = PreConversations
        /\ Messages = <<>>
        /\ Active = Some(Conversations[1].id)

\* C12 witness: a non-empty session was saved in front of the two seeds.
C12_Witness ==
    /\ last.op = "createNewConversation"
    /\ PreMessages # <<>>
    /\ Len(PreConversations) = 2
    /\ Len(Conversations) = 3

\* C13: loadConversation of an id of the list makes it the active id and
\* replaces the current messages, whatever they were, by the messages of the
\* conversation with that id (the first one the list holds); the list is unchanged.
C13_LoadReplacesCurrent ==
    (last.op = "loadConversation"
       /\ \E i \in 1..Len(PreConversations) : PreConversations[i].id = last.arg) =>
        /\ Active = Some(last.arg)
        /\ \E i \in 1..Len(PreConversations) :
               /\ PreConversations[i].id = last.arg
               /\ \A j \in 1..(i - 1) : PreConversations[j].id # last.arg
               /\ Messages = PreConversations[i].messages
        /\ Conversations = PreConversations

\* C13 witness: a conversation was loaded over other, non-empty current messages.
C13_Witness ==
    /\ last.op = "loadConversation"
    /\ PreMessages # <<>>
    /\ Messages # <<>>
    /\ Messages # PreMessages

\* C14: the messages of a saved conversation are not the current messages:
\* an append to, a clear of or a flag set on the current session leaves every
\* saved conversation as it is, also right after a load or a create; only
\* saveCurrentConversation changes the messages of a conversation of the list.
C14_SavedMessagesChangeOnlyBySave ==
    /\ last.op \in {"addMessageToCurrent", "setCurrentTyping",
                    "clearCurrentConversation", "loadConversation",
                    "setActiveConversation", "updateConversationTitle"} =>
           /\ Len(Conversations) = Len(PreConversations)
           /\ \A i \in 1..Len(Conversations) :
                  Conversations[i].messages = PreConversations[i].messages
    /\ last.op = "createNewConversation" =>
           \A i \in 1..Len(PreConversations) :
               Conversations[i + 1].messages = PreConversations[i].messages
    /\ last.op = "deleteConversation" =>
           \A i \in 1..Len(Conversations) :
               \E j \in 1..Len(PreConversations) :
                   Conversations[i] = PreConversations[j]

\* C14 witness: a message was appended while the current messages were those
\* of the active conversation.
C14_Witness ==
    /\ last.op = "addMessageToCurrent"
    /\ PreMessages # <<>>
    /\ \E i \in 1..Len(PreConversations) :
           /\ PreActive = Some(PreConversations[i].id)
           /\ PreConversations[i].messages = PreMessages

RemoveAt(seq, k) == SubSeq(seq, 1, k - 1) \o SubSeq(seq, k + 1, Len(seq))

\* C15 (as claimed): deleteConversation of the active id removes that
\* conversation from the list, sets activeConversationId to null and empties
\* the current messages, and all the other conversations remain, in the same
\* order: the list is the earlier list without one conversation of that id.
C15_DeleteActive ==
    (last.op = "deleteConversation"
       /\ PreActive = Some(last.arg)
       /\ \E k \in 1..Len(PreConversations) : PreConversations[k].id = last.arg) =>
        /\ \A i \in 1..Len(Conversations) : Conversations[i].id # last.arg
        /\ Active = None
        /\ Messages = <<>>
        /\ \E k \in 1..Len(PreConversations) :
               /\ PreConversations[k].id = last.arg
               /\ Conversations = RemoveAt(PreConversations, k)

HasId(conversations, id) ==
    \E i \in 1..Len(conversations) : conversations[i].id = id

\* C16 (as claimed): loadConversation, deleteConversation and
\* updateConversationTitle of an id that is not in the list, and
\* saveCurrentConversation while the active id is null or not in the list,
\* leave the whole conversation state unchanged.
C16_UnknownIdIsNoOp ==
    /\ (last.op \in {"loadConversation", "deleteConversation",
                     "updateConversationTitle"}
          /\ ~HasId(PreConversations, last.arg)) =>
           conversation = last.pre.conversation
    /\ (last.op = "saveCurrentConversation"
          /\ (PreActive = None \/ ~HasId(PreConversations, Val(PreActive)))) =>
           conversation = last.pre.conversation

\* C17 (as claimed): the typing flag of the current session changes only
\* through setCurrentTyping.
C17_OnlySetTypingChangesTyping ==
    (last.op # "init" /\ IsTyping # PreIsTyping) =>
        last.op = "setCurrentTyping"

\* C17 (amended): the typing flag is raised only by setCurrentTyping(true),
\* and lowered only by setCurrentTyping(false) or clearCurrentConversation;
\* every other reducer leaves it as it is.
C17_TypingChanges ==
    /\ (last.op # "init" /\ ~PreIsTyping /\ IsTyping) =>
           (last.op = "setCurrentTyping" /\ last.arg = TRUE)
    /\ (last.op # "init" /\ PreIsTyping /\ ~IsTyping) =>
           \/ (last.op = "setCurrentTyping" /\ last.arg = FALSE)
           \/ last.op = "clearCurrentConversation"

\* C17 witness: a clear lowered the typing flag.
C17_Witness ==
    /\ last.op = "clearCurrentConversation"
    /\ PreIsTyping
    /\ ~IsTyping

\* C18: clearCurrentConversation empties the current messages and lowers the
\* typing flag; the list of conversations and the active id stay as they were.
C18_ClearCurrentFrame ==
    last.op = "clearCurrentConversation" =>
        /\ Messages = <<>>
        /\ ~IsTyping
        /\ Conversations = PreConversations
        /\ Active = PreActive

\* C18 witness: a busy, non-empty session of an active conversation was cleared.
C18_Witness ==
    /\ last.op = "clearCurrentConversation"
    /\ PreMessages # <<>>
    /\ PreIsTyping
    /\ PreActive # None
    /\ Active # None

RECURSIVE IsSubsequence(_, _)
IsSubsequence(a, b) ==
    IF a = <<>> THEN TRUE
    ELSE IF b = <<>> THEN FALSE
    ELSE IF Head(a) = Head(b) THEN IsSubsequence(Tail(a), Tail(b))
    ELSE IsSubsequence(a, Tail(b))

Identity(conversations) ==
    [i \in 1..Len(conversations) |->
        [id |-> conversations[i].id, createdAt |-> conversations[i].createdAt]]

\* C19: the list is in insertion order, newest first: creation times never
\* increase along it, a new conversation enters in front of the others, and
\* no operation changes the relative order of two conversations that remain.
C19_NewestFirst ==
    /\ \A i, j \in 1..Len(Conversations) :
           i < j => Conversations[i].createdAt >= Conversations[j].createdAt
    /\ last.op = "createNewConversation" =>
           /\ Tail(Conversations) = PreConversations
           /\ Len(Conversations) = Len(PreConversations) + 1
    /\ last.op = "deleteConversation" =>
           IsSubsequence(Conversations, PreConversations)
    /\ last.op \notin {"init", "createNewConversation", "deleteConversation"} =>
           Identity(Conversations) = Identity(PreConversations)

\* C19 witness: a conversation created after the seeds is first and the two
\* that remain after a delete kept their order.
C19_Witness ==
    /\ last.op = "deleteConversation"
    /\ Len(PreConversations) = 3
    /\ Len(Conversations) = 2
    /\ Conversations[1].createdAt > Conversations[2].createdAt
    /\ Conversations[1].id \notin {"1", "2"}

\* C20: the new-conversation handler does nothing when the current session
\* has no message, and otherwise the conversation it inserts holds the
\* messages of the session, at least one; no conversation of the list is empty.
C20_NeverCreatedEmpty ==
    /\ \A i \in 1..Len(Conversations) : Len(Conversations[i].messages) >= 1
    /\ (last.op = "handleNewConversation" /\ PreMessages = <<>>) =>
           conversation = last.pre.conversation
    /\ (last.op = "handleNewConversation" /\ PreMessages # <<>>) =>
           /\ Len(Conversations) = Len(PreConversations) + 1
           /\ Conversations[1].messages = PreMessages
           /\ Len(Conversations[1].messages) >= 1

\* C20 witness: the handler was used on an empty session and nothing was inserted.
C20_Witness ==
    /\ last.op = "handleNewConversation"
    /\ PreMessages = <<>>
    /\ Len(Conversations) = Len(PreConversations)

\* C21 (as claimed): saveCurrentConversation, while the active id names a
\* conversation of the list, replaces the messages of exactly that
\* conversation by the current messages, sets its updatedAt to the time of the
\* dispatch and sets its title to the payload's title whenever a title is
\* given, the empty string included; its id and createdAt, every other
\* conversation, the current session and the active id are unchanged.
C21_SaveIntoActive ==
    (last.op = "saveCurrentConversation"
       /\ PreActive # None
       /\ HasId(PreConversations, Val(PreActive))) =>
        /\ \E k \in 1..Len(PreConversations) :
               /\ PreConversations[k].id = Val(PreActive)
               /\ Conversations =
                      [PreConversations EXCEPT
                         ![k] = [@ EXCEPT
                                   !.messages = PreMessages,
                                   !.updatedAt = last.at,
                                   !.title = IF last.arg # None
                                             THEN Val(last.arg) ELSE @]]
        /\ conversation.currentConversation =
               last.pre.conversation.currentConversation
        /\ Active = PreActive

\* C22 (as claimed): the ids of the messages of the current session are
\* pairwise distinct in every reachable state.
C22_MessageIdsDistinct ==
    \A i, j \in 1..Len(Messages) :
        i # j => Messages[i].id # Messages[j].id

\* C23 (as claimed): the ids of the conversations of the list are pairwise
\* distinct in every reachable state.
C23_ConversationIdsDistinct ==
    \A i, j \in 1..Len(Conversations) :
        i # j => Conversations[i].id # Conversations[j].id

ChatMessages == chat.messages
PreChatMessages == last.pre.chat.messages

\* C24 (as claimed): sources is set at most once: no operation of the chat
\* slice, updateLastMessage included, gives a message that has sources a
\* different value of sources.
C24_SourcesSetAtMostOnce ==
    last.op \in {"addMessage", "setIsTyping", "setCurrentQuery",
                 "updateLastMessage"} =>
        \A i \in 1..Len(PreChatMessages) :
            PreChatMessages[i].sources # None =>
                ChatMessages[i].sources = PreChatMessages[i].sources

\* C25: the sources panel shows nothing when the session has no assistant
\* message, and otherwise the sources of the last assistant message only, in
\* the stored order (nothing when that message has no sources), whatever the
\* sources of earlier assistant messages are.
C25_SourcesOfLastAssistant ==
    LET assistants == {i \in 1..Len(Messages) : Messages[i].sender = "assistant"}
    IN  /\ assistants = {} => PresentedSources(Messages) = <<>>
        /\ \A k \in assistants :
               (\A j \in assistants : j <= k) =>
                   /\ Messages[k].sources = None =>
                          PresentedSources(Messages) = <<>>
                   /\ Messages[k].sources # None =>
                          PresentedSources(Messages) = Val(Messages[k].sources)

\* C25 witness: a reply that cites two sources is followed by a fallback
\* message without sources, and the panel shows nothing.
C25_Witness ==
    /\ Len(Messages) = 4
    /\ Messages[2].sender = "assistant"
    /\ Messages[2].sources = Some(<<Source2, Source1>>)
    /\ Messages[4].sender = "assistant"
    /\ Messages[4].sources = None
    /\ PresentedSources(Messages) = <<>>

\* C26: the title handleNewConversation gives the new conversation is that of
\* the first user message of the session: its text when the text has at most
\* 30 characters, its first 30 characters followed by "..." when it has
\* more; without a user message it is the default title of the language.
C26_GeneratedTitle ==
    (last.op = "handleNewConversation" /\ PreMessages # <<>>) =>
        LET users == {i \in 1..Len(PreMessages) : PreMessages[i].sender = "user"}
            title == Conversations[1].title
        IN  /\ users = {} =>
                   title = (IF language = "hr" THEN DefaultTitleHr
                                               ELSE DefaultTitleEn)
            /\ \A k \in users :
                   (\A j \in users : k <= j) =>
                       LET text == Val(PreMessages[k].text)
                       IN  /\ Len(text) <= 30 => title = text
                           /\ Len(text) > 30 =>
                                  title = SubSeq(text, 1, 30) \o << ".", ".", "." >>

\* C26 witness: a session whose first user message has exactly 30 characters
\* was saved, and the title is that text.
C26_Witness ==
    /\ last.op = "handleNewConversation"
    /\ Len(PreMessages) = 1
    /\ PreMessages[1].sender = "user"
    /\ Len(Val(PreMessages[1].text)) = 30
    /\ Len(Conversations[1].title) = 30

\* C27: after hydration the label of a timestamp is computed from
\* hours = floor((now - timestamp) / 3600000) and days = floor(hours / 24):
\* the days and "d" if days > 0, else the hours and "h" if hours > 0, else
\* "Sada" / "Now"; 30 hours give "1d", 3 hours "3h", 10 seconds "Now" and
\* exactly 24 hours "1d".
C27_RelativeLabel ==
    (last.op = "formatTimestamp" /\ last.isHydrated) =>
        LET age == last.now - last.timestamp
            hours == age \div 3600000
            days == hours \div 24
            nowLabel == IF last.language = "hr" THEN << "S", "a", "d", "a" >>
                                                ELSE << "N", "o", "w" >>
        IN  /\ days > 0 => last.result = Digits(days) \o << "d" >>
            /\ (days <= 0 /\ hours > 0) => last.result = Digits(hours) \o << "h" >>
            /\ (days <= 0 /\ hours <= 0) => last.result = nowLabel
            /\ age = 30 * 3600000 => last.result = << "1", "d" >>
            /\ age = 3 * 3600000 => last.result = << "3", "h" >>
            /\ age = 10 * 1000 => last.result = nowLabel
            /\ age = 24 * 3600000 => last.result = << "1", "d" >>

\* C27 witness: a timestamp of exactly 24 hours ago was rendered as "1d".
C27_Witness ==
    /\ last.op = "formatTimestamp"
    /\ last.isHydrated
    /\ last.now - last.timestamp = 24 * 3600000
    /\ last.result = << "1", "d" >>

IsRelativeLabel(text) ==
    \/ text \in {LabelNowHr, LabelNowEn}
    \/ /\ Len(text) >= 2
       /\ text[Len(text)] \in {"d", "h"}
       /\ \A i \in 1..(Len(text) - 1) :
              \E n \in 1..10 : text[i] = DigitChars[n]

IsDateLabel(text) ==
    /\ \E i \in 1..Len(text) : text[i] \in {"/", "."}
    /\ \A i \in 1..Len(text) :
           \/ text[i] \in {"/", ".", " "}
           \/ \E n \in 1..10 : text[i] = DigitChars[n]

LabelFollowsHydration ==
    last.op = "formatTimestamp" =>
        /\ ~last.isHydrated =>
               /\ IsDateLabel(last.result)
               /\ ~IsRelativeLabel(last.result)
               /\ last.result =
                      toLocaleDateString(last.timestamp,
                                         IF last.language = "hr" THEN "hr-HR"
                                                                 ELSE "en-US")
        /\ last.isHydrated =>
               /\ IsRelativeLabel(last.result)
               /\ ~IsDateLabel(last.result)

\* C28: the label has two phases: while isHydrated is false every label is
\* the locale-formatted date and never the relative form; isHydrated, once
\* true, never becomes false again, and every label is then the relative form.
C28_TwoPhaseLabel ==
    /\ [](LabelFollowsHydration)
    /\ [][isHydrated => isHydrated']_vars

\* C28 witness: a label was rendered in the relative form after hydration.
C28_Witness ==
    /\ last.op = "formatTimestamp"
    /\ last.isHydrated
    /\ isHydrated
    /\ IsRelativeLabel(last.result)
    /\ last.now - last.timestamp = 3 * Hour

\* C29: driven by the handlers of the page (submit, clear, select, new
\* conversation, delete), the active id is null or the id of a conversation
\* of the list in every reachable state.
C29_ActiveIsNullOrListed ==
    Active = None \/ HasId(Conversations, Val(Active))

\* C29 witness: the active conversation was deleted and the active id is null.
C29_Witness ==
    /\ last.op = "handleDeleteConversation"
    /\ PreActive = last.id
    /\ HasId(PreConversations, Val(PreActive))
    /\ Active = None

FrameHandlers ==
    {"handleNewConversation", "handleSelectConversation",
     "handleDeleteConversation"}

\* C30 (as claimed): creating, selecting and deleting a conversation leave
\* the typing flag as it was; when a query is in flight while one of them
\* runs the flag is true afterwards, and it stays true until a request completes.
C30_TypingFrame ==
    /\ [](last.op \in FrameHandlers =>
              /\ IsTyping = PreIsTyping
              /\ last.pre.requests # {} => IsTyping)
    /\ [][(last.op \in FrameHandlers /\ requests # {} /\ IsTyping) =>
              (IsTyping' \/ requests' # requests)]_vars

\* The part of C30 that is about the reducers alone: none of them changes
\* the typing flag.
TypingFrameOfReducers ==
    last.op \in {"createNewConversation", "loadConversation",
                 "saveCurrentConversation", "deleteConversation",
                 "setActiveConversation", "updateConversationTitle"} =>
        IsTyping = PreIsTyping
====
